---- MODULE Spec2Model ----
(***************************************************************************)
(* Model of pie/trainer.py: the TaskScheduler (per-task improvement        *)
(* tracking, weight adaptation, checkpoint capture, early stop) and the    *)
(* Trainer loop that drives it.                                            *)
(*                                                                         *)
(* Numbers.  Scores and thresholds are integers (hundredths: 80 is 0.80).  *)
(* Weights, factors and min_weights are exact rationals <<n, d>>, d > 0.   *)
(* best is an extended number: [inf |-> -1 | 0 | 1, v |-> Int].            *)
(* An optional dictionary key is <<>> (absent) or <<v>> (present).         *)
(***************************************************************************)
EXTENDS Integers, Sequences, FiniteSets, TLC

\* ------------------------------------------------------------------ bounds
\* number of TaskScheduler.step calls made on one scheduler
MaxCalls == 3
\* number of epochs passed to train_epochs
MaxEpochs == 3
\* largest number of batches per epoch (num_instances // batch_size)
MaxBatches == 3
\* longest list of task names handed to sample_task
MaxTasks == 3
\* largest delay of a DelayerScheduler
MaxDelay == 2
\* number of step calls made on one DelayerScheduler
MaxLRSteps == 4

\* ------------------------------------------------------------ optional keys
None == <<>>
Some(v) == <<v>>
\* dict.get(key, default)
Get(opt, default) == IF opt = None THEN default ELSE opt[1]

\* ---------------------------------------------------------------- rationals
RECURSIVE GCD(_, _)
GCD(a, b) == IF b = 0 THEN a ELSE GCD(b, a % b)
Abs(x) == IF x < 0 THEN -x ELSE x
Rat(n, d) == LET g == GCD(Abs(n), d) IN IF n = 0 THEN <<0, 1>> ELSE <<n \div g, d \div g>>
RMul(a, b) == Rat(a[1] * b[1], a[2] * b[2])
RLe(a, b) == a[1] * b[2] <= b[1] * a[2]
RLt(a, b) == a[1] * b[2] < b[1] * a[2]
RMax(a, b) == IF RLe(b, a) THEN a ELSE b
One == <<1, 1>>
Zero == <<0, 1>>
RAdd(a, b) == Rat(a[1] * b[2] + b[1] * a[2], a[2] * b[2])
\* a / b for b # 0
RDiv(a, b) ==
    IF b[1] < 0 THEN Rat(-(a[1] * b[2]), a[2] * (-b[1])) ELSE Rat(a[1] * b[2], a[2] * b[1])
\* the point half way between a and b
RMid(a, b) == Rat(a[1] * b[2] + b[1] * a[2], 2 * a[2] * b[2])

\* --------------------------------------------------------- extended numbers
NegInf == [inf |-> -1, v |-> 0]
PosInf == [inf |-> 1, v |-> 0]
Fin(x) == [inf |-> 0, v |-> x]
\* x + t for a finite t: inf + t = inf
XAdd(x, t) == IF x.inf = 0 THEN Fin(x.v + t) ELSE x
\* x > y and x < y on extended numbers
XGt(x, y) ==
    IF x.inf # 0 \/ y.inf # 0 THEN x.inf > y.inf ELSE x.v > y.v
XLt(x, y) == XGt(y, x)
XGe(x, y) == x = y \/ XGt(x, y)
XLe(x, y) == XGe(y, x)

\* ----------------------------------------------------------------- strings
\* str.lower() on the mode spellings of the model
Lower(s) ==
    CASE s = "MAX" -> "max"
      [] s = "Min" -> "min"
      [] OTHER -> s

\* ------------------------------------------------------------------ inputs
\* the schedule dictionary of a task entry: every key is optional
NoSchedule ==
    [mode |-> None, weight |-> None, patience |-> None,
     threshold |-> None, factor |-> None, min_weight |-> None]

\* schedules that set the mode only
ModeSchedules ==
    { NoSchedule,
      [NoSchedule EXCEPT !.mode = Some("min")],
      [NoSchedule EXCEPT !.mode = Some("MAX")],
      [NoSchedule EXCEPT !.mode = Some("foo")] }

\* schedules that override the global patience, threshold, factor, min_weight, weight
PatienceSchedule == [NoSchedule EXCEPT !.patience = Some(1), !.threshold = Some(1)]
WeightSchedule ==
    [NoSchedule EXCEPT !.factor = Some(<<1, 2>>), !.min_weight = Some(<<1, 4>>),
                       !.weight = Some(<<1, 2>>)]

\* a threshold below 0: a score up to 0.02 worse than the best counts as better
NegativeThresholdSchedule == [NoSchedule EXCEPT !.threshold = Some(-2)]

\* settings.lm_schedule: the language-model losses are minimised
LmSchedule == [NoSchedule EXCEPT !.mode = Some("min")]

TaskEntry(n, tg, sc) == [name |-> n, target |-> tg, schedule |-> sc]

\* the global schedule defaults of settings
Defaults == [patience |-> 2, factor |-> <<1, 2>>, threshold |-> 0, min_weight |-> <<0, 1>>]
Globals ==
    { Defaults,
      [patience |-> 1, factor |-> <<1, 2>>, threshold |-> 1, min_weight |-> <<2, 1>>],
      [patience |-> 0, factor |-> <<3, 2>>, threshold |-> 0, min_weight |-> <<0, 1>>] }

\* settings.tasks: ordered lists of entries with distinct names.
\* Every mode spelling, on one task or on a target with an auxiliary task;
\* no target, and two targets
ModeTaskLists ==
    {<<>>}
    \cup { <<TaskEntry("pos", tg, sc)>> : tg \in BOOLEAN, sc \in ModeSchedules }
    \cup { <<TaskEntry("pos", TRUE, sc1), TaskEntry("lemma", FALSE, sc2)>> :
             sc1 \in ModeSchedules, sc2 \in ModeSchedules }
    \cup { <<TaskEntry("pos", tg, NoSchedule), TaskEntry("lemma", tg, NoSchedule)>> :
             tg \in BOOLEAN }
    \cup { <<TaskEntry("pos", TRUE, NoSchedule),
              TaskEntry("lemma", FALSE, NegativeThresholdSchedule)>> }
\* a target and an auxiliary task with and without overrides
OverrideTaskLists ==
    { <<TaskEntry("pos", TRUE, sc1), TaskEntry("lemma", FALSE, sc2)>> :
        sc1 \in {NoSchedule, PatienceSchedule},
        sc2 \in {NoSchedule, PatienceSchedule, WeightSchedule} }

\* dev scores, in hundredths
Scores == {50, 78, 79, 80}
AuxScores == {79, 80}

\* a score map is a dict: insertion-ordered pairs <<task, score>>, distinct keys;
\* "unk" is a name no scheduler tracks
ScoreMaps ==
    {<<>>}
    \cup { <<<<"pos", v>>>> : v \in Scores }
    \cup { <<<<n, v>>>> : n \in {"lemma", "lm_fwd"}, v \in AuxScores }
    \cup { <<<<"unk", 80>>, <<"pos", v>>>> : v \in {80} }
    \cup { <<<<"pos", v1>>, <<"lemma", v2>>>> : v1 \in Scores, v2 \in AuxScores }
    \cup { <<<<"lemma", v2>>, <<"pos", v1>>>> : v1 \in Scores, v2 \in AuxScores }

\* ------------------------------------------------------------------- state
VARIABLES
    settings,   \* the settings object handed to the constructors
    pc,         \* where the program is
    ts,         \* the TaskScheduler: tasks and the four global schedule values
    file,       \* the file at self.fid: <<>> when absent, <<state_dict>> otherwise
    params,     \* the model's parameters (what model.state_dict() returns)
    scores,     \* the score map of the latest step call
    visited,    \* the tasks whose loop body the latest step call ran
    exc,        \* the exception the latest call raised, kind "none" if it returned
    ncalls,     \* step calls made so far
    trainer,    \* the Trainer: target_task, num_batches, check_freq, lr_scheduler
    run,        \* the locals of train_epochs and train_epoch
    ret,        \* what train_epochs returned
    unit        \* a function or object exercised on its own: its inputs and results

schedvars == <<settings, pc, ts, file, params, scores, visited, exc, ncalls>>
vars == <<settings, pc, ts, file, params, scores, visited, exc, ncalls, trainer, run, ret,
          unit>>

NoExc == [kind |-> "none", task |-> "", loss |-> Fin(0), best_state_dict |-> None]
\* EarlyStopException(task, loss, state_dict)
EarlyStopException(task, loss, state_dict) ==
    [kind |-> "EarlyStop", task |-> task, loss |-> loss,
     best_state_dict |-> Some(state_dict)]
Raised(kind, task) ==
    [kind |-> kind, task |-> task, loss |-> Fin(0), best_state_dict |-> None]

NoTS ==
    [alive |-> FALSE, tasks |-> <<>>, patience |-> 0, factor |-> One,
     threshold |-> 0, min_weight |-> One]

\* ---------------------------------------------------------- TaskScheduler
\* the names of the entries of a task list
TaskNames(tl) == { tl[i].name : i \in DOMAIN tl }
\* the entry of name n (the last one wins, as in a dict assignment)
EntryOf(tl, n) ==
    tl[CHOOSE i \in DOMAIN tl : tl[i].name = n /\ \A j \in DOMAIN tl : tl[j].name = n => j <= i]

\* the first loop of __init__: schedule plus target; the lm tasks carry no target key
Preprocess(st) ==
    LET own == [n \in TaskNames(st.tasks) |->
                  [schedule |-> EntryOf(st.tasks, n).schedule,
                   target |-> EntryOf(st.tasks, n).target]]
        lm == [n \in {"lm_fwd", "lm_bwd"} |-> [schedule |-> st.lm_schedule, target |-> FALSE]]
    IN  IF st.include_lm /\ st.tasks # <<>>
        THEN [n \in DOMAIN own \cup DOMAIN lm |-> IF n \in DOMAIN lm THEN lm[n] ELSE own[n]]
        ELSE own

\* set initial best
InitialBest(mode) == IF mode = "max" THEN NegInf ELSE PosInf

\* the second loop of __init__: steps, mode, weight, best
TaskData(pre) ==
    LET mode == Get(pre.schedule.mode, "max")
    IN  [target |-> pre.target,
         steps |-> 0,
         mode |-> mode,
         weight |-> Get(pre.schedule.weight, One),
         best |-> InitialBest(mode),
         patience |-> pre.schedule.patience,
         threshold |-> pre.schedule.threshold,
         factor |-> pre.schedule.factor,
         min_weight |-> pre.schedule.min_weight]

\* TaskScheduler.__init__(settings)
TaskScheduler_init(st) ==
    LET pre == Preprocess(st)
    IN  [alive |-> TRUE,
         tasks |-> [n \in DOMAIN pre |-> TaskData(pre[n])],
         patience |-> st.patience,
         factor |-> st.factor,
         threshold |-> st.threshold,
         min_weight |-> st.min_weight]

\* the comparison made non-strict
ImprovesNonStrict(mode, value, best, threshold) ==
    IF mode = "max"
    THEN XGe(Fin(value), XAdd(best, threshold))
    ELSE XLe(Fin(value), XAdd(best, -threshold))

\* the comparison is_best makes for a mode it accepts
Improves(mode, value, best, threshold) ==
    IF mode = "max"
    THEN XGt(Fin(value), XAdd(best, threshold))
    ELSE XLt(Fin(value), XAdd(best, -threshold))

\* TaskScheduler.is_best(task, value): a boolean, or ValueError raised
is_best(sch, task, value) ==
    LET threshold == Get(sch.tasks[task].threshold, sch.threshold)
        mode == sch.tasks[task].mode
    IN  IF Lower(mode) \in {"max", "min"}
        THEN [raised |-> FALSE,
              value |-> Improves(Lower(mode), value, sch.tasks[task].best, threshold)]
        ELSE [raised |-> TRUE, value |-> FALSE]

\* the weight divided by the factor instead of multiplied
NewWeightDivides(sch, task) ==
    LET factor == Get(sch.tasks[task].factor, sch.factor)
        new_weight == Rat(sch.tasks[task].weight[1] * factor[2],
                          sch.tasks[task].weight[2] * factor[1])
        min_weight == Get(sch.tasks[task].min_weight, sch.min_weight)
    IN  RMax(new_weight, min_weight)

\* the weight shrunk without the min_weight floor
NewWeightNoFloor(sch, task) ==
    RMul(sch.tasks[task].weight, Get(sch.tasks[task].factor, sch.factor))

\* the new weight of a task that exhausted its patience
NewWeight(sch, task) ==
    LET factor == Get(sch.tasks[task].factor, sch.factor)
        new_weight == RMul(sch.tasks[task].weight, factor)
        min_weight == Get(sch.tasks[task].min_weight, sch.min_weight)
    IN  RMax(new_weight, min_weight)

\* the patience of a task: its own, else the global one
PatienceOf(sch, task) == Get(sch.tasks[task].patience, sch.patience)

\* the snapshot written whenever any task improves
SaveOnAnyImprovement(is_target, improved, f, model) ==
    IF improved THEN Some(model) ELSE f

\* torch.save(model.state_dict(), self.fid) when the target improved
SaveIfTarget(is_target, improved, f, model) ==
    IF improved /\ is_target THEN Some(model) ELSE f

\* the file left in place after it was read
KeepFile(f) == f

\* os.remove(self.fid), after torch.load read it
RemoveFile(f) == None

\* an improvement recorded without the counter set back
CountedNoReset(td, score, improved) ==
    IF improved THEN [td EXCEPT !.best = Fin(score)]
    ELSE [td EXCEPT !.steps = @ + 1]

\* every score recorded as the best
CountedAlwaysRecords(td, score, improved) ==
    IF improved THEN [td EXCEPT !.best = Fin(score), !.steps = 0]
    ELSE [td EXCEPT !.best = Fin(score), !.steps = @ + 1]

\* the task's record after its score was compared: best and steps set on an
\* improvement, steps counted up otherwise
Counted(td, score, improved) ==
    IF improved THEN [td EXCEPT !.best = Fin(score), !.steps = 0]
    ELSE [td EXCEPT !.steps = @ + 1]

\* patience counted as used up at its multiples only
ExhaustedAtMultiples(steps, patience) ==
    patience > 0 /\ steps > 0 /\ steps % patience = 0

\* if self.tasks[task]['steps'] >= patience
Exhausted(steps, patience) == steps >= patience

\* the state a step call works on
StepState(sch, f) == [ts |-> sch, file |-> f, visited |-> {}, exc |-> NoExc]

\* one iteration of the loop of step, for a tracked task whose is_best returned
StepBody(s, task, score, improved, model) ==
    LET td == s.ts.tasks[task]
        is_target == td.target
        td1 == Counted(td, score, improved)
        ts1 == [s.ts EXCEPT !.tasks[task] = td1]
        f1 == SaveIfTarget(is_target, improved, s.file, model)
        s1 == [s EXCEPT !.ts = ts1, !.file = f1, !.visited = @ \cup {task}]
    IN  IF Exhausted(td1.steps, PatienceOf(ts1, task))
        THEN IF is_target
             THEN IF f1 = None
                  THEN [s1 EXCEPT !.exc = Raised("FileNotFoundError", task)]
                  ELSE [s1 EXCEPT !.file = RemoveFile(f1),
                                  !.exc = EarlyStopException(task, td1.best, f1[1])]
             ELSE [s1 EXCEPT !.ts.tasks[task].weight = NewWeight(ts1, task)]
        ELSE s1

\* TaskScheduler.step(scores, model): the loop from item i on
RECURSIVE StepLoop(_, _, _, _)
StepLoop(s, sc, i, model) ==
    IF i > Len(sc) \/ s.exc.kind # "none" THEN s
    ELSE LET task == sc[i][1]
             score == sc[i][2]
         IN  IF task \notin DOMAIN s.ts.tasks
             THEN StepLoop(s, sc, i + 1, model)
             ELSE LET ib == is_best(s.ts, task, score)
                  IN  IF ib.raised
                      THEN [s EXCEPT !.exc = Raised("ValueError", task)]
                      ELSE StepLoop(StepBody(s, task, score, ib.value, model), sc, i + 1, model)

step(sch, f, sc, model) == StepLoop(StepState(sch, f), sc, 1, model)

\* get_weights()
get_weights(sch) == [n \in DOMAIN sch.tasks |-> sch.tasks[n].weight]

\* ------------------------------------------------- scheduler used on its own
\* the Trainer's own settings, unused while the scheduler is driven directly
NoTrainerSettings ==
    [optimizer |-> "Adam", lr_scheduler |-> "ReduceLROnPlateau", lr_delayed |-> 0,
     checks_per_epoch |-> 0, num_instances |-> 0, batch_size |-> 1]

MakeSettings(tl, g, lm, t) ==
    [tasks |-> tl, include_lm |-> lm, lm_schedule |-> LmSchedule,
     patience |-> g.patience, factor |-> g.factor, threshold |-> g.threshold,
     min_weight |-> g.min_weight,
     optimizer |-> t.optimizer, lr_scheduler |-> t.lr_scheduler,
     lr_delayed |-> t.lr_delayed, checks_per_epoch |-> t.checks_per_epoch,
     num_instances |-> t.num_instances, batch_size |-> t.batch_size]

SchedSettings ==
    { MakeSettings(tl, Defaults, FALSE, NoTrainerSettings) : tl \in ModeTaskLists }
    \cup { MakeSettings(tl, g, FALSE, NoTrainerSettings) :
              tl \in OverrideTaskLists, g \in Globals }
    \cup { MakeSettings(<<TaskEntry("pos", TRUE, NoSchedule)>>, Defaults, TRUE,
                         NoTrainerSettings) }

NoLR == [wrapped |-> FALSE, delay |-> 0, nb_steps |-> 0, kind |-> "", base_steps |-> 0]
NoTrainer == [target_task |-> "", num_batches |-> 0, check_freq |-> 0, lr_scheduler |-> NoLR]
\* epochs, devset: the arguments of train_epochs; result: its local scores;
\* epoch, b, scores: the epoch, the batch index and the local scores of train_epoch;
\* nchecks: checks that returned; sampled, loss_tasks: the task drawn for the
\* batch and the tasks handed to model.loss
NoRun == [epochs |-> 0, devset |-> FALSE, result |-> None, epoch |-> 0, b |-> 0,
          scores |-> None, nchecks |-> 0, sampled |-> "", loss_tasks |-> {}]
NoRet == [returned |-> FALSE, value |-> None]
\* what a call returned or raised: raised is "none" or the kind of the error
Returned(v) == [raised |-> "none", value |-> v]
Failed(kind) == [raised |-> kind, value |-> ""]
\* fn: what is exercised; target, tasks, factor: the arguments of sample_task;
\* checks_per_epoch, num_batches: what check_freq is derived from; lr: a
\* DelayerScheduler; calls: calls made; out: the outcome of sample_task;
\* check_freq: the derived frequency
NoUnit ==
    [fn |-> "", target |-> "", tasks |-> <<>>, factor |-> One,
     checks_per_epoch |-> 0, num_batches |-> 0, lr |-> NoLR, calls |-> 0,
     out |-> Returned(""), check_freq |-> 0]

InitCommon ==
    /\ pc = "new"
    /\ ts = NoTS
    /\ file = None
    /\ params = 0
    /\ scores = <<>>
    /\ visited = {}
    /\ exc = NoExc
    /\ ncalls = 0
    /\ trainer = NoTrainer
    /\ run = NoRun
    /\ ret = NoRet
    /\ unit = NoUnit

SchedInit ==
    /\ settings \in SchedSettings
    /\ InitCommon

\* TaskScheduler(settings)
Construct ==
    /\ pc = "new"
    /\ ts' = TaskScheduler_init(settings)
    /\ pc' = "sched"
    /\ UNCHANGED <<settings, file, params, scores, visited, exc, ncalls, trainer, run, ret, unit>>

\* task_scheduler.step(sc, model) with model.state_dict() = m
Step ==
    /\ pc = "sched"
    /\ ncalls < MaxCalls
    /\ \E sc \in ScoreMaps :
         \* training moved the parameters since the previous call
         \E r \in {step(ts, file, sc, params + 1)} :
             /\ ts' = r.ts
             /\ file' = r.file
             /\ visited' = r.visited
             /\ exc' = r.exc
             /\ scores' = sc
             /\ params' = params + 1
    /\ ncalls' = ncalls + 1
    /\ UNCHANGED <<settings, pc, trainer, run, ret, unit>>

SchedNext == Construct \/ Step

SchedSpec == SchedInit /\ [][SchedNext]_vars

\* ------------------------------------------------------------------ sampling
\* itertools.accumulate(weights)
RECURSIVE RSum(_, _)
RSum(w, i) == IF i = 0 THEN Zero ELSE RAdd(RSum(w, i - 1), w[i])
CumWeights(w) == [i \in DOMAIN w |-> RSum(w, i)]

\* bisect.bisect(a, x, lo, hi): the binary search, positions counted from 0
RECURSIVE bisect(_, _, _, _)
bisect(a, x, lo, hi) ==
    IF lo < hi
    THEN LET mid == (lo + hi) \div 2
         IN  IF RLt(x, a[mid + 1]) THEN bisect(a, x, lo, mid) ELSE bisect(a, x, mid + 1, hi)
    ELSE lo

\* random() * total for random() in [0, 1): one value for every way such a
\* product compares with the cumulated weights (each of them inside the
\* range, and a point between every two neighbours)
DrawPoints(cum, total) ==
    LET lo == IF RLt(total, Zero) THEN total ELSE Zero
        hi == IF RLt(total, Zero) THEN Zero ELSE total
        inner == {Zero} \cup { cum[i] : i \in { j \in DOMAIN cum :
                                                  RLt(lo, cum[j]) /\ RLt(cum[j], hi) } }
        ends == inner \cup {total}
        neighbours == { p \in ends \X ends :
                          /\ RLt(p[1], p[2])
                          /\ \A e \in ends : ~(RLt(p[1], e) /\ RLt(e, p[2])) }
    IN  inner \cup { RMid(p[1], p[2]) : p \in neighbours }

\* random.choices(population, weights)[0]: the outcomes it can have.  An empty
\* population fails with IndexError.  A total weight that is not positive
\* fails with ValueError from Python 3.9 on and draws as usual before.
choices(population, weights) ==
    IF population = <<>> THEN {Failed("IndexError")}
    ELSE LET cum == CumWeights(weights)
             n == Len(population)
             total == cum[n]
             drawn == { Returned(population[bisect(cum, x, 0, n - 1) + 1]) :
                          x \in DrawPoints(cum, total) }
         IN  IF RLe(total, Zero) THEN drawn \cup {Failed("ValueError")} ELSE drawn

\* every task given the same weight
WeightsUniform(target, tasks, factor) ==
    [i \in DOMAIN tasks |-> Rat(1, Len(tasks))]

\* the weights of sample_task: aux for every task but the target, trg for the
\* target (factor is not 0)
Weights(target, tasks, factor) ==
    LET n == Len(tasks)
        aux == IF n > 1 THEN RDiv(Rat(1, n - 1), factor) ELSE Zero
        trg == RAdd(One, Rat(-(aux[1] * (n - 1)), aux[2]))
    IN  [i \in DOMAIN tasks |-> IF tasks[i] # target THEN aux ELSE trg]

\* sample_task(target, tasks, factor): its outcomes
sample_task(target, tasks, factor) == choices(tasks, Weights(target, tasks, factor))

\* the target of get_batch_task: the last entry marked target, "" (None) without one
LastTarget(tl) ==
    LET marked == { i \in DOMAIN tl : tl[i].target }
    IN  IF marked = {} THEN "" ELSE tl[CHOOSE i \in marked : \A j \in marked : j <= i].name

\* get_batch_task(tasks), factor left at its default
DefaultFactor == 2
get_batch_task(tl) ==
    sample_task(LastTarget(tl), [i \in DOMAIN tl |-> tl[i].name], Rat(DefaultFactor, 1))

\* ------------------------------------------------------------------ Trainer
\* get_target_task(settings): the first entry marked target, "" when it raises
get_target_task(st) ==
    LET marked == { i \in DOMAIN st.tasks : st.tasks[i].target }
    IN  IF marked = {} THEN ""
        ELSE st.tasks[CHOOSE i \in marked : \A j \in marked : i <= j].name

\* Trainer.get_optimizer: the names the two optimizer registries resolve
KnownOptimizers == {"Adam"}
\* Trainer.get_scheduler: the schedules it builds
KnownSchedulers == {"ReduceLROnPlateau", "CosineAnnealingLR", "CosineAnnealingWarmRestarts"}

\* the frequency of one check an epoch without the step back from num_batches
CheckFreqNoOffset(checks_per_epoch, num_batches) ==
    IF checks_per_epoch = 1 THEN num_batches
    ELSE IF checks_per_epoch > num_batches THEN 1
    ELSE IF checks_per_epoch > 1 THEN num_batches \div checks_per_epoch
    ELSE 0

\* the check frequency __init__ derives
CheckFreq(checks_per_epoch, num_batches) ==
    IF checks_per_epoch = 1 THEN num_batches - 1
    ELSE IF checks_per_epoch > num_batches THEN 1
    ELSE IF checks_per_epoch > 1 THEN num_batches \div checks_per_epoch
    ELSE 0

\* the call forwarded from the delay-th on
DelayerStepInclusive(lr) ==
    LET n == lr.nb_steps + 1
    IN  [lr EXCEPT !.nb_steps = n,
                   !.base_steps = IF n >= lr.delay THEN @ + 1 ELSE @]

\* DelayerScheduler.step: count the call, forward it once past the delay
DelayerStep(lr) ==
    LET n == lr.nb_steps + 1
    IN  [lr EXCEPT !.nb_steps = n,
                   !.base_steps = IF n > lr.delay THEN @ + 1 ELSE @]

\* DelayerScheduler(optimizer, delay, base_scheduler): nb_steps = -1, then the
\* base class constructor takes its initial step through self.step()
DelayerScheduler_init(delay, kind) ==
    DelayerStep([wrapped |-> TRUE, delay |-> delay, nb_steps |-> -1, kind |-> kind,
                 base_steps |-> 0])

\* the lr_scheduler __init__ ends with
LRScheduler_init(st) ==
    IF st.lr_delayed > 0
    THEN DelayerScheduler_init(st.lr_delayed, st.lr_scheduler)
    ELSE [wrapped |-> FALSE, delay |-> 0, nb_steps |-> 0, kind |-> st.lr_scheduler,
          base_steps |-> 0]

\* Trainer.step_lr_scheduler(loss): either way of stepping advances the schedule once
step_lr_scheduler(lr) ==
    IF lr.wrapped THEN DelayerStep(lr) ELSE [lr EXCEPT !.base_steps = @ + 1]

\* DelayerScheduler.waiting
waiting(lr) == lr.nb_steps <= lr.delay

\* Trainer(settings, model, dataset, num_instances)
TrainerInit ==
    /\ pc = "new"
    /\ IF get_target_task(settings) = ""
       THEN /\ exc' = Raised("ValueError", "")
            /\ pc' = "init_failed"
            /\ UNCHANGED <<ts, trainer>>
       ELSE IF settings.optimizer \notin KnownOptimizers
       THEN /\ exc' = Raised("TypeError", "")
            /\ pc' = "init_failed"
            /\ UNCHANGED <<ts, trainer>>
       ELSE IF settings.lr_scheduler \notin KnownSchedulers
       THEN /\ exc' = Raised("ValueError", "")
            /\ pc' = "init_failed"
            /\ UNCHANGED <<ts, trainer>>
       ELSE LET num_batches == settings.num_instances \div settings.batch_size
            IN  /\ trainer' =
                     [target_task |-> get_target_task(settings),
                      num_batches |-> num_batches,
                      check_freq |-> CheckFreq(settings.checks_per_epoch, num_batches),
                      lr_scheduler |-> LRScheduler_init(settings)]
                /\ ts' = TaskScheduler_init(settings)
                /\ pc' = "ready"
                /\ exc' = NoExc
    /\ UNCHANGED <<settings, file, params, scores, visited, ncalls, run, ret, unit>>

\* train_epochs(epochs, devset): the call, up to the epoch loop
TrainEpochs ==
    /\ pc = "ready"
    /\ \E epochs \in 0..MaxEpochs, devset \in BOOLEAN :
         run' = [NoRun EXCEPT !.epochs = epochs, !.devset = devset, !.epoch = 1]
    /\ pc' = "epoch"
    /\ UNCHANGED <<settings, ts, file, params, scores, visited, exc, ncalls, trainer, ret, unit>>

\* the value train_epoch returns assigned to the local scores
AssignEpochScores(own, epoch_scores) == epoch_scores

\* the parameters left as training made them
KeepCurrent(current, state_dict) == current

\* self.train_epoch(devset, epoch) in train_epochs: the value train_epoch
\* returns is dropped, the local scores of train_epochs stays as it was
KeepEpochScores(own, epoch_scores) == own

\* model.load_state_dict(e.best_state_dict) in the handler of train_epochs
Restore(current, state_dict) == state_dict

\* the epoch loop: enter train_epoch for run.epoch
BeginEpoch ==
    /\ pc = "epoch"
    /\ run.epoch <= run.epochs
    /\ IF trainer.num_batches = 0
       THEN /\ run' = [run EXCEPT !.epoch = @ + 1, !.scores = None,
                                  !.result = KeepEpochScores(@, None)]
            /\ pc' = "epoch"
       ELSE /\ run' = [run EXCEPT !.b = 0, !.scores = None]
            /\ pc' = "batch"
    /\ UNCHANGED <<settings, ts, file, params, scores, visited, exc, ncalls, trainer, ret, unit>>

\* the epoch loop is exhausted: train_epochs returns its local scores
Finish ==
    /\ pc = "epoch"
    /\ run.epoch > run.epochs
    /\ ret' = [returned |-> TRUE, value |-> run.result]
    /\ pc' = "completed"
    /\ UNCHANGED <<settings, ts, file, params, scores, visited, exc, ncalls, trainer, run, unit>>

\* the check condition at the end of the batch loop body
CheckDue(tr, r) ==
    tr.check_freq > 0 /\ r.b > 0 /\ r.b % tr.check_freq = 0 /\ r.devset

\* the position after batch r.b is done
AfterBatch(tr, r) ==
    IF r.b + 1 < tr.num_batches
    THEN [pc |-> "batch", run |-> [r EXCEPT !.b = @ + 1]]
    ELSE [pc |-> "epoch",
          run |-> [r EXCEPT !.epoch = @ + 1, !.result = KeepEpochScores(@, r.scores)]]

\* the loss requested for every task of the model
LossAllTasks(sampled, tasks) == tasks

\* the tasks model.loss(batch, get_batch_task(...)) is asked for: the sampled one
LossTasks(sampled, tasks) == {sampled}

\* one batch of train_epoch up to the check: sample, loss, optimize (gradient
\* clipping, the loss accumulators and the report only log, they change
\* nothing kept here)
TrainBatch ==
    /\ pc = "batch"
    /\ \E o \in get_batch_task(settings.tasks), empty \in BOOLEAN :
         LET r1 == [run EXCEPT !.sampled = o.value,
                               !.loss_tasks = LossTasks(o.value, TaskNames(settings.tasks))]
         IN  IF o.raised # "none"
             THEN /\ exc' = Raised(o.raised, "")
                  /\ pc' = "crashed"
                  /\ UNCHANGED <<run, params>>
             ELSE IF empty
             THEN /\ exc' = Raised("ValueError", "")
                  /\ pc' = "crashed"
                  /\ run' = r1
                  /\ UNCHANGED params
             ELSE /\ params' = params + 1
                  /\ exc' = NoExc
                  /\ IF CheckDue(trainer, r1)
                     THEN pc' = "check" /\ run' = r1
                     ELSE pc' = AfterBatch(trainer, r1).pc /\ run' = AfterBatch(trainer, r1).run
    /\ UNCHANGED <<settings, ts, file, scores, visited, ncalls, trainer, ret, unit>>

\* the keys of a score map
Keys(sc) == { sc[i][1] : i \in DOMAIN sc }

\* run_check(devset) inside train_epoch, and the handler of train_epochs
RunCheck ==
    /\ pc = "check"
    /\ \E sc \in ScoreMaps :
         \E r \in {step(ts, file, sc, params)} :
             /\ ts' = r.ts
             /\ visited' = r.visited
             /\ exc' = IF r.exc.kind = "none" /\ trainer.target_task \notin Keys(sc)
                       THEN Raised("KeyError", trainer.target_task) ELSE r.exc
             /\ scores' = sc
             /\ file' = r.file
             /\ IF r.exc.kind = "EarlyStop"
                THEN /\ params' = Restore(params, r.exc.best_state_dict[1])
                     /\ ret' = [returned |-> TRUE,
                                value |-> Some(<<<<r.exc.task, r.exc.loss>>>>)]
                     /\ pc' = "stopped_early"
                     /\ UNCHANGED <<trainer, run>>
                ELSE IF r.exc.kind # "none" \/ trainer.target_task \notin Keys(sc)
                THEN /\ pc' = "crashed"
                     /\ UNCHANGED <<params, ret, trainer, run>>
                ELSE LET r1 == [run EXCEPT !.scores = Some(sc), !.nchecks = @ + 1]
                     IN  /\ trainer' = [trainer EXCEPT
                                           !.lr_scheduler = step_lr_scheduler(@)]
                         /\ pc' = AfterBatch(trainer, r1).pc
                         /\ run' = AfterBatch(trainer, r1).run
                         /\ UNCHANGED <<params, ret>>
    /\ ncalls' = ncalls + 1
    /\ UNCHANGED <<settings, unit>>

\* the settings of a training run
TrainerSettings ==
    { [optimizer |-> "Adam", lr_scheduler |-> k, lr_delayed |-> d,
       checks_per_epoch |-> c, num_instances |-> n, batch_size |-> 1] :
        k \in {"ReduceLROnPlateau"}, d \in {0}, c \in {0, 1, 2, MaxBatches + 1},
        n \in 0..MaxBatches }

TrainTaskLists ==
    { <<>>,
      <<TaskEntry("pos", TRUE, NoSchedule)>>,
      <<TaskEntry("pos", TRUE, NoSchedule), TaskEntry("lemma", FALSE, NoSchedule)>>,
      <<TaskEntry("pos", TRUE, NoSchedule), TaskEntry("lemma", TRUE, NoSchedule)>>,
      <<TaskEntry("pos", TRUE, [NoSchedule EXCEPT !.mode = Some("MAX")])>>,
      <<TaskEntry("pos", TRUE, NoSchedule),
        TaskEntry("lemma", FALSE, [NoSchedule EXCEPT !.mode = Some("foo")])>> }

TrainSettings ==
    { MakeSettings(tl, Defaults, FALSE, t) : tl \in TrainTaskLists, t \in TrainerSettings }

TrainInit ==
    /\ settings \in TrainSettings
    /\ InitCommon

TrainNext == TrainerInit \/ TrainEpochs \/ BeginEpoch \/ Finish \/ TrainBatch \/ RunCheck

TrainSpec == TrainInit /\ [][TrainNext]_vars

\* ------------------------------------------- functions exercised on their own
\* task names
Names == {"pos", "lemma", "morph", "case"}
\* lists of distinct task names (the keys of a dict, the names of settings.tasks)
NameLists ==
    { l \in UNION { [1..k -> Names] : k \in 0..MaxTasks } :
        \A i, j \in DOMAIN l : i # j => l[i] # l[j] }
\* factors: below 1, 1, the default and above it
Factors == { <<1, 2>>, One, Rat(DefaultFactor, 1), <<3, 1>> }
\* sample_task(target, tasks, factor) about to be called; "" is no target (None)
SampleCalls ==
    { [NoUnit EXCEPT !.fn = "sample_task", !.target = t, !.tasks = l, !.factor = f] :
        t \in {"", "pos", "lemma"}, l \in NameLists, f \in Factors }
\* the derivation of check_freq about to be made
CheckFreqCalls ==
    { [NoUnit EXCEPT !.fn = "check_freq", !.checks_per_epoch = c, !.num_batches = n] :
        c \in (-1..(MaxBatches + 2)) \cup {200}, n \in (0..(MaxBatches + 1)) \cup {100} }
\* a DelayerScheduler just constructed
Delayers ==
    { [NoUnit EXCEPT !.fn = "delayer", !.lr = DelayerScheduler_init(d, k)] :
        d \in 0..MaxDelay, k \in KnownSchedulers }

UnitInit ==
    /\ unit \in SampleCalls \cup CheckFreqCalls \cup Delayers
    /\ settings = MakeSettings(<<>>, Defaults, FALSE, NoTrainerSettings)
    /\ pc = "unit"
    /\ ts = NoTS
    /\ file = None
    /\ params = 0
    /\ scores = <<>>
    /\ visited = {}
    /\ exc = NoExc
    /\ ncalls = 0
    /\ trainer = NoTrainer
    /\ run = NoRun
    /\ ret = NoRet

UnitUnchanged ==
    UNCHANGED <<settings, pc, ts, file, params, scores, visited, exc, ncalls, trainer, run, ret>>

\* sample_task(target, tasks, factor)
Sample ==
    /\ unit.fn = "sample_task"
    /\ unit.calls = 0
    /\ \E o \in sample_task(unit.target, unit.tasks, unit.factor) :
         unit' = [unit EXCEPT !.out = o, !.calls = 1]
    /\ UnitUnchanged

\* the derivation of check_freq in Trainer.__init__
Derive ==
    /\ unit.fn = "check_freq"
    /\ unit.calls = 0
    /\ unit' = [unit EXCEPT !.check_freq = CheckFreq(unit.checks_per_epoch, unit.num_batches),
                            !.calls = 1]
    /\ UnitUnchanged

\* lr_scheduler.step(...) on a DelayerScheduler, as step_lr_scheduler calls it
LRStep ==
    /\ unit.fn = "delayer"
    /\ unit.calls < MaxLRSteps
    /\ unit' = [unit EXCEPT !.lr = step_lr_scheduler(@), !.calls = @ + 1]
    /\ UnitUnchanged

UnitNext == Sample \/ Derive \/ LRStep

UnitSpec == UnitInit /\ [][UnitNext]_vars

\* ================================================================== claims
\* helpers of the formulas
NumTargets == Cardinality({ i \in DOMAIN settings.tasks : settings.tasks[i].target })
Tracked == DOMAIN ts.tasks
IsCall == ncalls' = ncalls + 1
\* the score the latest call was given for task t
ScoreOf(sc, t) == sc[CHOOSE i \in DOMAIN sc : sc[i][1] = t][2]
REq(a, b) == a[1] * b[2] = b[1] * a[2]
EffThreshold(sch, t) == Get(sch.tasks[t].threshold, sch.threshold)
EffFactor(sch, t) == Get(sch.tasks[t].factor, sch.factor)
EffMinWeight(sch, t) == Get(sch.tasks[t].min_weight, sch.min_weight)
\* value > best + threshold and value < best - threshold, written out on integers
ExceedsMax(value, best, threshold) ==
    best.inf = -1 \/ (best.inf = 0 /\ value > best.v + threshold)
ExceedsMin(value, best, threshold) ==
    best.inf = 1 \/ (best.inf = 0 /\ value < best.v - threshold)
\* a target task has used up its patience
TargetExhausted(sch) ==
    \E t \in DOMAIN sch.tasks : sch.tasks[t].target /\ sch.tasks[t].steps >= PatienceOf(sch, t)
\* a target task the call now ending ran its loop body for was given an improving score
TargetImproved ==
    \E t \in visited' : ts.tasks[t].target /\ is_best(ts, t, ScoreOf(scores', t)).value

\* C1: construction from a task list succeeds only when exactly one task is
\* marked target; with none or with two or more it fails and leaves no
\* scheduler or trainer.
C1_ConstructionNeedsOneTarget ==
    (pc = "ready" \/ ts.alive) => NumTargets = 1

\* C2 as stated: is_best is value > best + threshold for mode max, value <
\* best - threshold for mode min (threshold the task's own, else the global
\* one, the comparison strict), and it fails for every other mode value.
C2_IsBestAsStated ==
    \A t \in Tracked : \A v \in Scores :
        LET td == ts.tasks[t]
            r == is_best(ts, t, v)
        IN  /\ td.mode = "max" =>
                ~r.raised /\ (r.value <=> ExceedsMax(v, td.best, EffThreshold(ts, t)))
            /\ td.mode = "min" =>
                ~r.raised /\ (r.value <=> ExceedsMin(v, td.best, EffThreshold(ts, t)))
            /\ td.mode \notin {"max", "min"} => r.raised

\* C2 amended: the same with the mode read case-insensitively: a mode that
\* lower-cases to max compares value > best + threshold, one that lower-cases
\* to min compares value < best - threshold, strictly, and is_best fails only
\* for a mode that lower-cases to neither.
C2_IsBestCaseInsensitive ==
    \A t \in Tracked : \A v \in Scores :
        LET td == ts.tasks[t]
            r == is_best(ts, t, v)
        IN  /\ Lower(td.mode) = "max" =>
                ~r.raised /\ (r.value <=> ExceedsMax(v, td.best, EffThreshold(ts, t)))
            /\ Lower(td.mode) = "min" =>
                ~r.raised /\ (r.value <=> ExceedsMin(v, td.best, EffThreshold(ts, t)))
            /\ Lower(td.mode) \notin {"max", "min"} => r.raised

\* C2 witness: a max task with an own threshold was just given exactly
\* best + threshold, and the call did not count it as an improvement.
C2_Witness ==
    \E t \in visited :
        /\ ts.tasks[t].mode = "max"
        /\ ts.tasks[t].threshold = Some(1)
        /\ ts.tasks[t].best.inf = 0
        /\ ScoreOf(scores, t) = ts.tasks[t].best.v + 1
        /\ ts.tasks[t].steps > 0

\* C3: a task with a mode other than max or min makes construction fail, so
\* every constructed scheduler has only max and min tasks, whose initial best
\* is -infinity for max and +infinity for min.
C3_ModesValidated ==
    ts.alive =>
        \A t \in Tracked :
            /\ ts.tasks[t].mode \in {"max", "min"}
            /\ ncalls = 0 =>
                 ts.tasks[t].best = IF ts.tasks[t].mode = "max" THEN NegInf ELSE PosInf

\* C4: EarlyStop is raised by exactly the first step call after which a
\* target task's steps_since_improvement is >= its patience, and by no
\* earlier call.
C4_EarlyStopAtFirstExhaustion ==
    [][ (IsCall /\ ~TargetExhausted(ts)) =>
          ((exc'.kind = "EarlyStop") <=> TargetExhausted(ts')) ]_vars

\* C5 as stated: a non-target task's weight after a step call is never above
\* its weight before, whatever weight, factor and min_weight are configured.
C5_WeightNeverIncreases ==
    [][ \A t \in Tracked \cap DOMAIN ts'.tasks :
          ~ts.tasks[t].target => RLe(ts'.tasks[t].weight, ts.tasks[t].weight) ]_vars

\* the configured weight, factor and min_weight of task t keep shrinking a shrink
ShrinkingConfig(t) ==
    LET td == TaskScheduler_init(settings).tasks[t]
        factor == Get(td.factor, settings.factor)
        min_weight == Get(td.min_weight, settings.min_weight)
    IN  /\ RLe(<<0, 1>>, factor) /\ RLe(factor, One)
        /\ RLe(<<0, 1>>, td.weight) /\ RLe(min_weight, td.weight)

\* C5 amended: a non-target task's weight after a step call is never above
\* its weight before, provided its factor (its own, else the global one) is
\* between 0 and 1 and its configured initial weight is non-negative and not
\* below its min_weight.
C5_WeightNeverIncreasesWhenShrinking ==
    [][ \A t \in Tracked \cap DOMAIN ts'.tasks :
          (~ts.tasks[t].target /\ ShrinkingConfig(t)) =>
              RLe(ts'.tasks[t].weight, ts.tasks[t].weight) ]_vars

\* C5 witness: a non-target task of such a configuration was down-weighted
\* by the latest call.
C5_Witness ==
    \E t \in visited :
        /\ ~ts.tasks[t].target
        /\ ShrinkingConfig(t)
        /\ ts.tasks[t].steps >= PatienceOf(ts, t)
        /\ RLt(ts.tasks[t].weight, TaskScheduler_init(settings).tasks[t].weight)

\* C6: a non-target task that exhausts its patience in a step call gets the
\* weight max(weight * factor, min_weight), factor and min_weight its own if
\* set and the global ones otherwise; a weight that changed is never below
\* min_weight, and one that is not below min_weight never gets below it.
C6_WeightShrinksToFloor ==
    [][ \A t \in Tracked \cap DOMAIN ts'.tasks :
          LET w == ts.tasks[t].weight
              w1 == ts'.tasks[t].weight
              f == EffFactor(ts, t)
              product == <<w[1] * f[1], w[2] * f[2]>>
              floor == EffMinWeight(ts, t)
          IN  ~ts.tasks[t].target =>
                /\ (IsCall /\ t \in visited' /\ ts'.tasks[t].steps >= PatienceOf(ts, t)) =>
                     /\ RLe(product, w1) /\ RLe(floor, w1)
                     /\ REq(w1, product) \/ REq(w1, floor)
                /\ w1 # w => RLe(floor, w1)
                /\ RLe(floor, w) => RLe(floor, w1) ]_vars

\* C6 witness: a non-target task with its own factor and min_weight exhausted
\* its patience again in the latest call and sits on its min_weight, below
\* the weight it was configured with.
C6_Witness ==
    \E t \in visited :
        /\ ~ts.tasks[t].target
        /\ ts.tasks[t].factor # None /\ ts.tasks[t].min_weight # None
        /\ ts.tasks[t].steps > PatienceOf(ts, t)
        /\ REq(ts.tasks[t].weight, EffMinWeight(ts, t))
        /\ RLt(ts.tasks[t].weight, TaskScheduler_init(settings).tasks[t].weight)

\* C7: a step call that does not raise EarlyStop and in which a target task
\* improves overwrites the stored snapshot with the model state of that call;
\* one in which no target improves (also when only non-target tasks improve)
\* leaves the stored snapshot as it was.
C7_SnapshotFollowsTarget ==
    [][ (IsCall /\ exc'.kind # "EarlyStop") =>
          IF TargetImproved THEN file' = Some(params') ELSE file' = file ]_vars

\* C7 witness: the stored snapshot is that of an earlier call, and the latest
\* call returned after a non-target task improved while the target did not.
C7_Witness ==
    /\ exc.kind = "none"
    /\ file # None /\ file[1] < params
    /\ \E t \in visited : ts.tasks[t].target /\ ts.tasks[t].steps > 0
    /\ \E t \in visited : ~ts.tasks[t].target /\ ts.tasks[t].steps = 0

\* C8: an EarlyStop carries the name of a target task, that task's best score
\* and the snapshot stored at that moment (the one this call wrote if a target
\* improved in it, else the one stored before), and the call removes the
\* stored snapshot.
C8_EarlyStopConsumesSnapshot ==
    [][ (IsCall /\ exc'.kind = "EarlyStop") =>
          /\ exc'.task \in DOMAIN ts'.tasks
          /\ ts'.tasks[exc'.task].target
          /\ exc'.loss = ts'.tasks[exc'.task].best
          /\ exc'.best_state_dict = IF TargetImproved THEN Some(params') ELSE file
          /\ file' = None ]_vars

\* C8 witness: EarlyStop was raised with a snapshot written by an earlier
\* call, and no snapshot is stored any more.
C8_Witness ==
    /\ exc.kind = "EarlyStop"
    /\ exc.best_state_dict # None /\ exc.best_state_dict[1] < params
    /\ exc.loss = ts.tasks[exc.task].best
    /\ file = None

\* C9: a check that raises EarlyStop ends the run at once: nothing runs after
\* it, the model's parameters become the stored snapshot (the state at this
\* check if a target improved in it, else the one stored before, which C7 makes
\* the state at the latest improvement of a target), and train_epochs returns
\* the raising target task with its best score.
C9_EarlyStopEndsRun ==
    [][ /\ pc # "stopped_early"
        /\ (IsCall /\ exc'.kind = "EarlyStop") =>
             /\ pc' = "stopped_early"
             /\ params' = IF TargetImproved THEN params ELSE file[1]
             /\ ret'.returned
             /\ ret'.value = Some(<<<<exc'.task, ts'.tasks[exc'.task].best>>>>)
             /\ ts'.tasks[exc'.task].target
             /\ run' = run
        /\ pc' = "stopped_early" => exc'.kind = "EarlyStop" ]_vars

\* C9 witness: target pos, auxiliary lemma, patience 2, threshold 0, three
\* batches an epoch and a check after the second and the third: the third
\* check, in the second epoch with pos at 0.78, stopped the run with best 0.80
\* and the parameters of the first check (two optimizer steps in), five
\* optimizer steps having been made.
C9_Witness ==
    /\ pc = "stopped_early"
    /\ TaskNames(settings.tasks) = {"pos", "lemma"} /\ NumTargets = 1
    /\ trainer.check_freq = 1
    /\ ncalls = 3
    /\ \E i \in DOMAIN scores : scores[i] = <<"pos", 78>>
    /\ ret.value = Some(<<<<"pos", Fin(80)>>>>)
    /\ settings.patience = 2 /\ settings.threshold = 0
    /\ params = 2
    /\ trainer.num_batches = 3 /\ run.epoch = 2 /\ run.b = 1

\* C10 as stated: after all epochs ran without EarlyStop, train_epochs returns
\* the score map of the last check that ran, and nothing only if no check ran.
C10_ReturnsLastScores ==
    pc = "completed" =>
        /\ run.nchecks > 0 => ret.value = Some(scores)
        /\ ret.value = None => run.nchecks = 0

\* C10 amended: after all epochs ran without EarlyStop, train_epochs returns
\* nothing, whether or not checks ran: the score map train_epoch returns is
\* dropped.
C10_ReturnsNothing ==
    pc = "completed" => ret.returned /\ ret.value = None

\* C10 witness: a run completed after at least one check.
C10_Witness ==
    pc = "completed" /\ run.nchecks > 0 /\ scores # <<>>

\* C11: in every terminal state of a run no stored snapshot remains: after an
\* early stop it was consumed and removed, after normal completion of all
\* epochs any snapshot written during the run was discarded.
C11_NoSnapshotAtEnd ==
    pc \in {"completed", "stopped_early"} => file = None

\* C12: sample_task fails with an error, and returns no task name, whenever
\* the target is not one of the task names (also when no task is marked
\* target and the target passed is empty).
C12_SampleFailsWithoutTarget ==
    (unit.fn = "sample_task" /\ unit.calls = 1
        /\ unit.target \notin { unit.tasks[i] : i \in DOMAIN unit.tasks })
    => unit.out.raised # "none"

\* helpers of the sampler formulas
UnitNames == { unit.tasks[i] : i \in DOMAIN unit.tasks }
\* w is the mass the claim gives a non-target task: (1 / (n - 1)) / factor
IsAuxMass(w, n, factor) == w[1] * (n - 1) * factor[1] = w[2] * factor[2]
\* w is the mass the claim gives the target: 1 - aux * (n - 1), 1 when n = 1
IsTargetMass(w, n, factor) ==
    IF n > 1 THEN w[1] * factor[1] = (factor[1] - factor[2]) * w[2] ELSE w = One
\* the weights are the masses of the claim
MassesAsClaimed ==
    LET w == Weights(unit.target, unit.tasks, unit.factor)
        n == Len(unit.tasks)
    IN  \A i \in DOMAIN unit.tasks :
          IF unit.tasks[i] = unit.target
          THEN IsTargetMass(w[i], n, unit.factor)
          ELSE IsAuxMass(w[i], n, unit.factor)
\* the masses are non-negative and sum to 1
MassesAreDistribution ==
    LET w == Weights(unit.target, unit.tasks, unit.factor)
    IN  /\ \A i \in DOMAIN w : RLe(Zero, w[i])
        /\ RSum(w, Len(w)) = One
\* the call returned a task name of positive mass
DrawnFromMasses ==
    LET w == Weights(unit.target, unit.tasks, unit.factor)
    IN  /\ unit.out.raised = "none"
        /\ \E i \in DOMAIN unit.tasks : unit.tasks[i] = unit.out.value /\ RLt(Zero, w[i])
\* three tasks, the first the target, factor 2: 0.5, 0.25, 0.25
ThreeTaskExample ==
    (Len(unit.tasks) = 3 /\ unit.tasks[1] = unit.target /\ unit.factor = <<2, 1>>) =>
        Weights(unit.target, unit.tasks, unit.factor) = <<(<<1, 2>>), (<<1, 4>>), (<<1, 4>>)>>

NoCheckFires(check_freq, n) ==
    \A b \in 0..(n - 1) :
        ~CheckDue([check_freq |-> check_freq], [b |-> b, devset |-> TRUE])
\* num_batches = 100: checks_per_epoch 1, 200, 4, 0 give 99, 1, 25, 0
HundredBatches ==
    unit.num_batches = 100 =>
        /\ unit.checks_per_epoch = 1 => unit.check_freq = 99
        /\ unit.checks_per_epoch = 200 => unit.check_freq = 1
        /\ unit.checks_per_epoch = 4 => unit.check_freq = 25
        /\ unit.checks_per_epoch = 0 => unit.check_freq = 0

\* C14 as stated: check_freq is num_batches - 1 when checks_per_epoch = 1; 1
\* when checks_per_epoch > num_batches; num_batches // checks_per_epoch when
\* 1 < checks_per_epoch <= num_batches; 0 when checks_per_epoch <= 0; for 100
\* batches 1, 200, 4, 0 give 99, 1, 25, 0; with check_freq = 0 no check fires.
C14_CheckFreqDerivation ==
    (unit.fn = "check_freq" /\ unit.calls = 1) =>
        LET c == unit.checks_per_epoch
            n == unit.num_batches
        IN  /\ c = 1 => unit.check_freq = n - 1
            /\ c > n => unit.check_freq = 1
            /\ (1 < c /\ c <= n) => unit.check_freq = n \div c
            /\ c <= 0 => unit.check_freq = 0
            /\ HundredBatches
            /\ unit.check_freq = 0 => NoCheckFires(unit.check_freq, n)

\* C14 amended: the same with the first case taking precedence: check_freq is
\* num_batches - 1 when checks_per_epoch = 1, also when num_batches is 0, and
\* 1 when checks_per_epoch > num_batches and checks_per_epoch is not 1.
C14_CheckFreqDerivationInOrder ==
    (unit.fn = "check_freq" /\ unit.calls = 1) =>
        LET c == unit.checks_per_epoch
            n == unit.num_batches
        IN  /\ c = 1 => unit.check_freq = n - 1
            /\ (c > n /\ c # 1) => unit.check_freq = 1
            /\ (1 < c /\ c <= n) => unit.check_freq = n \div c
            /\ c <= 0 => unit.check_freq = 0
            /\ HundredBatches
            /\ unit.check_freq <= 0 => NoCheckFires(unit.check_freq, n)

\* C14 witness: 100 batches and 4 checks an epoch gave check_freq 25.
C14_Witness ==
    /\ unit.fn = "check_freq" /\ unit.calls = 1
    /\ unit.num_batches = 100 /\ unit.checks_per_epoch = 4
    /\ unit.check_freq = 25

\* C15: in an epoch with a dev set supplied, with checks_per_epoch = 1 a
\* check runs after the final batch of the epoch and after no other; with
\* checks_per_epoch > num_batches a check runs after every batch; with
\* checks_per_epoch <= 0 no check runs.
C15_ChecksPerEpoch ==
    [][ (pc = "batch" /\ pc' # "crashed" /\ run.devset) =>
          LET c == settings.checks_per_epoch
              n == trainer.num_batches
          IN  /\ c = 1 => (pc' = "check" <=> run.b = n - 1)
              /\ c > n => pc' = "check"
              /\ c <= 0 => pc' # "check" ]_vars

\* C16: a delay wrapper with delay d does not advance the base schedule in
\* its first d step calls and forwards every call from the (d+1)-th on: after
\* k calls the base schedule has been advanced exactly max(0, k - d) times.
C16_DelayForwards ==
    unit.fn = "delayer" =>
        unit.lr.base_steps =
            IF unit.calls > unit.lr.delay THEN unit.calls - unit.lr.delay ELSE 0

\* C16 witness: a wrapper with delay 2 was stepped 4 times and forwarded the
\* last two calls.
C16_Witness ==
    /\ unit.fn = "delayer" /\ unit.lr.wrapped
    /\ unit.lr.delay = 2 /\ unit.calls = 4
    /\ unit.lr.base_steps = 2
    /\ ~waiting(unit.lr)

\* helpers of the counter formulas
\* is_best held for the score the call now ending gave task t
ImprovedIn(t) == t \in Keys(scores') /\ is_best(ts, t, ScoreOf(scores', t)).value
\* the call now ending left the counter, best and weight of task t alone
Untouched(t) ==
    /\ ts'.tasks[t].steps = ts.tasks[t].steps
    /\ ts'.tasks[t].best = ts.tasks[t].best
    /\ ts'.tasks[t].weight = ts.tasks[t].weight
\* the position of task t in the score map sc, 0 when it is not a key
KeyIndex(sc, t) ==
    IF t \in Keys(sc) THEN CHOOSE i \in DOMAIN sc : sc[i][1] = t ELSE 0

\* C17 as stated: for every tracked task in the scores of a step call, steps
\* is 0 after the call iff is_best held for its score, and one more than
\* before otherwise; steps is never negative; tasks not in the scores keep
\* steps, best and weight.
C17_CounterFollowsScores ==
    [][ IsCall =>
          \A t \in Tracked :
            /\ t \in Keys(scores') =>
                 ts'.tasks[t].steps = IF ImprovedIn(t) THEN 0 ELSE ts.tasks[t].steps + 1
            /\ ts'.tasks[t].steps >= 0
            /\ t \notin Keys(scores') => Untouched(t) ]_vars

\* C17 amended: the same for the tasks the call evaluates: every tracked task
\* of the scores when the call returns; when it raises, the tracked tasks
\* before the raising one in the scores (and the raising one, unless is_best
\* failed on it).  Every other task, those after the raising one included,
\* keeps steps, best and weight.
C17_CounterFollowsEvaluatedScores ==
    [][ IsCall =>
          /\ \A t \in Tracked :
                /\ t \in visited' =>
                     /\ t \in Keys(scores')
                     /\ ts'.tasks[t].steps =
                          IF ImprovedIn(t) THEN 0 ELSE ts.tasks[t].steps + 1
                /\ ts'.tasks[t].steps >= 0
                /\ t \notin visited' => Untouched(t)
          /\ exc'.kind = "none" => visited' = Tracked \cap Keys(scores')
          /\ exc'.kind # "none" =>
                /\ exc'.task \in Tracked \cap Keys(scores')
                /\ \A t \in Tracked \cap Keys(scores') :
                      /\ KeyIndex(scores', t) < KeyIndex(scores', exc'.task) => t \in visited'
                      /\ KeyIndex(scores', t) > KeyIndex(scores', exc'.task) => t \notin visited'
                /\ exc'.task \in visited' <=> exc'.kind # "ValueError" ]_vars

\* C17 witness: a call that returned set the counter of one task back to 0
\* on its new best and counted another task up.
C17_Witness ==
    /\ exc.kind = "none" /\ ncalls >= 2
    /\ \E t1, t2 \in visited :
          /\ ts.tasks[t1].steps = 0 /\ ts.tasks[t1].best = Fin(ScoreOf(scores, t1))
          /\ ts.tasks[t2].steps = 2

\* C18 as stated: best only moves in the improving direction of the task's
\* mode: after a call it is >= its value before for mode max, <= for mode
\* min, and it changes only in calls where the task's score is an improvement.
C18_BestMovesOneWay ==
    [][ IsCall =>
          \A t \in Tracked :
            /\ ts.tasks[t].mode = "max" => XGe(ts'.tasks[t].best, ts.tasks[t].best)
            /\ ts.tasks[t].mode = "min" => XLe(ts'.tasks[t].best, ts.tasks[t].best)
            /\ ts'.tasks[t].best # ts.tasks[t].best => ImprovedIn(t) ]_vars

\* C18 amended: the same for a task whose threshold (its own, else the global
\* one) is not negative; with a negative threshold a score below the best of a
\* max task (above that of a min task) by less than the threshold replaces it.
C18_BestMovesOneWayWithThreshold ==
    [][ IsCall =>
          \A t \in Tracked :
            /\ EffThreshold(ts, t) >= 0 =>
                 /\ Lower(ts.tasks[t].mode) = "max" =>
                      XGe(ts'.tasks[t].best, ts.tasks[t].best)
                 /\ Lower(ts.tasks[t].mode) = "min" =>
                      XLe(ts'.tasks[t].best, ts.tasks[t].best)
            /\ ts'.tasks[t].best # ts.tasks[t].best =>
                 (ImprovedIn(t) /\ ts'.tasks[t].best = Fin(ScoreOf(scores', t))) ]_vars

\* C18 witness: the latest call kept the best of a max task that scored lower
\* and raised the best of another to its score.
C18_Witness ==
    /\ ncalls >= 2
    /\ \E t1, t2 \in visited :
          /\ ts.tasks[t1].mode = "max" /\ EffThreshold(ts, t1) >= 0
          /\ ts.tasks[t1].steps > 0 /\ ts.tasks[t1].best.inf = 0
          /\ ScoreOf(scores, t1) < ts.tasks[t1].best.v
          /\ ts.tasks[t2].mode = "max" /\ EffThreshold(ts, t2) >= 0
          /\ ts.tasks[t2].steps = 0 /\ ts.tasks[t2].best = Fin(ScoreOf(scores, t2))

\* w1 is max(w * factor, floor)
IsShrunk(w, w1, factor, floor) ==
    LET product == <<w[1] * factor[1], w[2] * factor[2]>>
    IN  /\ RLe(product, w1) /\ RLe(floor, w1)
        /\ REq(w1, product) \/ REq(w1, floor)

\* C19 as stated: for a non-target task with patience p that does not
\* improve, exhaustion does not reset steps, the shrink max(weight * factor,
\* min_weight) is applied at the evaluations where the counter reaches p, 2p,
\* 3p, ... and the weight is left unchanged at the evaluations in between.
C19_ShrinkAtMultiples ==
    [][ IsCall =>
          \A t \in Tracked \cap visited' :
            (~ts.tasks[t].target /\ ~ImprovedIn(t) /\ PatienceOf(ts, t) > 0) =>
              /\ ts'.tasks[t].steps = ts.tasks[t].steps + 1
              /\ IF ts'.tasks[t].steps % PatienceOf(ts, t) = 0
                 THEN IsShrunk(ts.tasks[t].weight, ts'.tasks[t].weight,
                               EffFactor(ts, t), EffMinWeight(ts, t))
                 ELSE ts'.tasks[t].weight = ts.tasks[t].weight ]_vars

\* C19 amended: exhaustion does not reset steps, and the shrink is applied at
\* every evaluation of a non-target task that leaves its counter at or above
\* p: at p, p + 1, p + 2, ... until the task improves; the weight is left
\* unchanged at the evaluations that leave the counter below p.
C19_ShrinkAtEveryEvaluation ==
    [][ IsCall =>
          \A t \in Tracked \cap visited' :
            ~ts.tasks[t].target =>
              /\ ~ImprovedIn(t) => ts'.tasks[t].steps = ts.tasks[t].steps + 1
              /\ IF ts'.tasks[t].steps >= PatienceOf(ts, t)
                 THEN IsShrunk(ts.tasks[t].weight, ts'.tasks[t].weight,
                               EffFactor(ts, t), EffMinWeight(ts, t))
                 ELSE ts'.tasks[t].weight = ts.tasks[t].weight ]_vars

\* C19 witness: a max task with patience 2 and factor 0.5 did not improve in
\* three checks in a row: its counter is 3 and its weight was halved at the
\* second and at the third, from 1 to 0.25.
C19_Witness ==
    \E t \in visited :
        /\ ~ts.tasks[t].target /\ ts.tasks[t].mode = "max"
        /\ PatienceOf(ts, t) = 2 /\ EffFactor(ts, t) = <<1, 2>>
        /\ ts.tasks[t].steps = 3
        /\ ts.tasks[t].weight = <<1, 4>>

\* C20 as stated: in every training step one task is sampled and the loss is
\* then requested for the batch and the full set of configured tasks, not
\* only the sampled one, before any optimizer update of the step; an empty
\* mapping makes the step fail before the optimizer is touched.
C20_LossForAllTasks ==
    [][ pc = "batch" =>
          /\ run'.sampled \in TaskNames(settings.tasks)
          /\ run'.loss_tasks = TaskNames(settings.tasks)
          /\ exc'.kind # "none" => (pc' = "crashed" /\ params' = params) ]_vars

\* C20 amended: the loss is requested for the batch and the sampled task
\* only, before the optimizer update of the step, which is the only change of
\* the parameters in the step; an empty mapping makes the step fail with the
\* parameters untouched.
C20_LossForSampledTask ==
    [][ pc = "batch" =>
          /\ run'.sampled \in TaskNames(settings.tasks)
          /\ run'.loss_tasks = {run'.sampled}
          /\ exc'.kind # "none" =>
               (exc'.kind = "ValueError" /\ pc' = "crashed" /\ params' = params)
          /\ exc'.kind = "none" => (pc' # "crashed" /\ params' = params + 1) ]_vars

\* C20 witness: with the tasks pos and lemma configured, a step sampled
\* lemma, asked the loss for lemma alone and updated the parameters.
C20_Witness ==
    /\ TaskNames(settings.tasks) = {"pos", "lemma"}
    /\ pc \in {"batch", "check", "epoch"}
    /\ run.sampled = "lemma" /\ run.loss_tasks = {"lemma"}
    /\ exc.kind = "none" /\ params > 0

\* C21: whenever a step call finds a target task with its patience used up,
\* and so is about to raise EarlyStop, a snapshot is stored: the call reads
\* and removes it and raises EarlyStop with it, and never hits a missing
\* snapshot, for every patience >= 0, every mode spelling is_best accepts
\* and every sequence of scores.
C21_SnapshotExistsAtEarlyStop ==
    [][ IsCall =>
          /\ exc'.kind # "FileNotFoundError"
          /\ \A t \in Tracked \cap visited' :
                (ts.tasks[t].target /\ Exhausted(ts'.tasks[t].steps, PatienceOf(ts, t))) =>
                    (exc'.kind = "EarlyStop" /\ exc'.best_state_dict # None) ]_vars

====
